---- MODULE Spec2Model ----
(***************************************************************************)
(* Metered streaming endpoint of kaustubhuk8/golangapi.                    *)
(*                                                                         *)
(* The repository holds two revisions of the same service:                 *)
(*   "server"  : src/main.go (type Server, gorilla/mux)                    *)
(*   "handler" : src/internal/models/models.go and src/unnamed/part_001    *)
(*               (type Handler, echo) with                                 *)
(*               src/internal/middleware/ratelimit/ratelimit.go            *)
(* impl selects the revision a behaviour runs; it never changes.           *)
(***************************************************************************)
EXTENDS Integers, Sequences, FiniteSets, TLC

(* ---------------------------------------------------------------- bounds *)
NProcs == 2      \* concurrent request tasks
NUsers == 1      \* user identifiers
MaxTime == 150   \* the clock stops here (seconds)
Step == 30       \* granularity of the clock (seconds)
MaxEmit == 2     \* tokens one session may emit
NSessions == 1   \* requests followed from their first line to their last
MaxCalls == 2    \* charges of other requests against one user
MaxAmount == 2   \* words one such charge may carry
NSeeds == 2      \* seeds a caller may send
RandMod == 8     \* states of a random source

Limit == 3       \* requests admitted per window; the code's 100 (main.go:235,
                 \* ratelimit.go:57) scaled down, the algorithm is the same

(* ----------------------------------------------------- program constants *)
Minute == 60             \* time.Minute, in seconds
DefaultWords == 1000000  \* words_left and total_words of a new user

Procs == 1..NProcs
Users == 1..NUsers
ObjIds == 1..(NProcs + 1)
NoObj == 0
Impls == {"server", "handler"}

VARIABLES
  impl,       \* revision of the service
  clock,      \* time.Now(), seconds
  rlCounters, \* server RateLimiter.counters: user -> object id, NoObj = absent
  heap,       \* server *UserCounter objects: id -> [count, resetTime, mu] or free
  rlMu,       \* server RateLimiter.mu write holder: "free" or "cleanup"
  sweep,      \* server cleanup goroutine: [pc, now, todo]
  counters,   \* handler RateLimiter.counters: user -> [Count, LastReset] or absent
  admitted,   \* history: user -> calls that returned true in the current window
  users,      \* table users: user -> [words_left, total_words] or no row
  requests,   \* table requests: the rows inserted, in order
  rowLock,    \* users rows locked FOR UPDATE: user -> the task holding it, or 0
  cache,      \* redis user_words:<id>: user -> cached words_left, or no entry
  statsCache, \* redis user_stats:<id>: user -> cached stats, or no entry
  ledger,     \* history: user -> [initial, charged, calls]: words_left when the
              \* row appeared, the words of the charges committed, the charges begun
  proc        \* request tasks: p -> record of its position and locals

rlVars == <<rlCounters, heap, rlMu, sweep, counters, admitted>>
dbVars == <<users, requests, rowLock, cache, statsCache, ledger>>
vars == <<impl, clock, rlCounters, heap, rlMu, sweep, counters, admitted,
          users, requests, rowLock, cache, statsCache, ledger, proc>>

Free == [free |-> TRUE]
Absent == [absent |-> TRUE]
NoRow == [norow |-> TRUE]
NoEntry == [noentry |-> TRUE]
NoBody == [nobody |-> TRUE]

\* A task's locals. status is the HTTP status sent (0: none yet); wordsLeft and
\* err are what the quota read returned (-1: nothing yet), chargeErr what the
\* charge returned; cacheFailed, dbFailed and effects are the history of what
\* the request met and did so far.
IdleProc ==
  [pc |-> "idle", op |-> "none", userID |-> 0, counter |-> NoObj, allowed |-> FALSE,
   status |-> 0, err |-> FALSE, wordsLeft |-> -1, amount |-> 0, newWordsLeft |-> 0,
   chargeErr |-> FALSE,
   maxTokens |-> -1, stopToken |-> "", seed |-> 0, streamRand |-> 0,
   wordCount |-> 0, generatedData |-> <<>>, sink |-> <<>>,
   txWordsLeft |-> 0, cacheFailed |-> FALSE, dbFailed |-> FALSE,
   maxWords |-> 0, writeFailed |-> FALSE, saved |-> <<>>,
   ctxDone |-> FALSE, connOpen |-> TRUE, effects |-> {},
   body |-> NoBody, found |-> "none", dbUp |-> TRUE, redisUp |-> TRUE,
   ref |-> [u \in Users |-> Absent], refOk |-> FALSE, recent |-> <<>>]

IdleSweep == [pc |-> "wait", now |-> 0, todo |-> {}]

(* ------------------------------------------------------------ rate limit *)

\* Objects no reference reaches are collected: the map and the tasks' locals
\* are the only roots.
Collect(h, m, pr) ==
  [i \in ObjIds |->
     IF (\E u \in Users : m[u] = i) \/ (\E p \in Procs : pr[p].counter = i)
     THEN h[i] ELSE Free]

NewObj(h) == CHOOSE i \in ObjIds : h[i] = Free /\ \A j \in ObjIds : h[j] = Free => i <= j

\* main.go Allow, lines 83-85: the lookup under the read lock.
AllowLookup(p) ==
  /\ impl = "server"
  /\ proc[p].pc = "allow"
  /\ rlMu = "free"
  /\ LET c == rlCounters[proc[p].userID] IN
       proc' = [proc EXCEPT ![p].counter = c,
                            ![p].pc = IF c = NoObj THEN "allow_create" ELSE "allow_lock"]
  /\ UNCHANGED <<impl, dbVars, clock, rlVars>>

\* main.go Allow, lines 87-95: the miss path stores a fresh counter, whatever
\* the map holds by now.
AllowCreate(p) ==
  /\ impl = "server"
  /\ proc[p].pc = "allow_create"
  /\ rlMu = "free"
  /\ \E i \in ObjIds : heap[i] = Free
  /\ LET i == NewObj(heap)
         u == proc[p].userID
         pr == [proc EXCEPT ![p].counter = i, ![p].pc = "allow_lock"]
         m == [rlCounters EXCEPT ![u] = i]
         h == [heap EXCEPT ![i] = [count |-> 0, resetTime |-> clock + Minute, mu |-> 0]]
     IN /\ proc' = pr
        /\ rlCounters' = m
        /\ heap' = Collect(h, m, pr)
        /\ admitted' = [admitted EXCEPT ![u] = 0]
  /\ UNCHANGED <<impl, dbVars, clock, rlMu, sweep, counters>>

\* main.go Allow, line 97: counter.mu.Lock().
AllowLock(p) ==
  /\ impl = "server"
  /\ proc[p].pc = "allow_lock"
  /\ heap[proc[p].counter].mu = 0
  /\ heap' = [heap EXCEPT ![proc[p].counter].mu = p]
  /\ proc' = [proc EXCEPT ![p].pc = "allow_body"]
  /\ UNCHANGED <<impl, dbVars, clock, rlCounters, rlMu, sweep, counters, admitted>>

\* a reset that starts a window and keeps the count of the last one
AllowResetKeepsCount(c, now) ==
  IF now > c.resetTime THEN [c EXCEPT !.resetTime = now + Minute] ELSE c

\* main.go Allow, lines 100-104: the window of the counter after the lazy reset.
AllowReset(c, now) ==
  IF now > c.resetTime THEN [c EXCEPT !.count = 0, !.resetTime = now + Minute] ELSE c

\* main.go Allow, lines 106-111: the decision on the (reset) counter.
AllowDecide(c, limit) == c.count < limit

\* a body that returns without the deferred counter.mu.Unlock()
AllowBodyKeepsLock(p) ==
  /\ impl = "server"
  /\ proc[p].pc = "allow_body"
  /\ LET i == proc[p].counter
         u == proc[p].userID
         c == AllowReset(heap[i], clock)
         ok == AllowDecide(c, Limit)
         c2 == [c EXCEPT !.count = IF ok THEN c.count + 1 ELSE c.count]
         pr == [proc EXCEPT ![p].counter = NoObj, ![p].allowed = ok, ![p].pc = "allow_ret"]
         inMap == rlCounters[u] = i
         base == IF inMap /\ c.resetTime # heap[i].resetTime THEN 0 ELSE admitted[u]
     IN /\ proc' = pr
        /\ heap' = Collect([heap EXCEPT ![i] = c2], rlCounters, pr)
        /\ admitted' = [admitted EXCEPT ![u] = IF ok THEN base + 1 ELSE base]
  /\ UNCHANGED <<impl, dbVars, clock, rlCounters, rlMu, sweep, counters>>

\* main.go Allow, lines 98-112: the body under counter.mu, unlocked on return.
AllowBody(p) ==
  /\ impl = "server"
  /\ proc[p].pc = "allow_body"
  /\ LET i == proc[p].counter
         u == proc[p].userID
         c == AllowReset(heap[i], clock)
         ok == AllowDecide(c, Limit)
         c2 == [c EXCEPT !.count = IF ok THEN c.count + 1 ELSE c.count, !.mu = 0]
         pr == [proc EXCEPT ![p].counter = NoObj, ![p].allowed = ok, ![p].pc = "allow_ret"]
         inMap == rlCounters[u] = i
         base == IF inMap /\ c.resetTime # heap[i].resetTime THEN 0 ELSE admitted[u]
     IN /\ proc' = pr
        /\ heap' = Collect([heap EXCEPT ![i] = c2], rlCounters, pr)
        /\ admitted' = [admitted EXCEPT ![u] = IF ok THEN base + 1 ELSE base]
  /\ UNCHANGED <<impl, dbVars, clock, rlCounters, rlMu, sweep, counters>>

\* main.go cleanup, lines 115-118: rl.mu.Lock(), now, range over the map.
CleanupBegin ==
  /\ impl = "server"
  /\ sweep.pc = "wait"
  /\ rlMu = "free"
  /\ rlMu' = "cleanup"
  /\ sweep' = [pc |-> "scan", now |-> clock,
               todo |-> {u \in Users : rlCounters[u] # NoObj}]
  /\ UNCHANGED <<impl, dbVars, clock, rlCounters, heap, counters, proc, admitted>>

\* main.go cleanup, line 121: the counter's window ended a minute ago.
CleanupExpired(c, now) == now > c.resetTime + Minute

\* main.go cleanup, lines 119-125: one iteration, under the counter's read lock.
CleanupVisit(u) ==
  /\ impl = "server"
  /\ sweep.pc = "scan"
  /\ u \in sweep.todo
  /\ heap[rlCounters[u]].mu = 0
  /\ LET m == IF CleanupExpired(heap[rlCounters[u]], sweep.now)
              THEN [rlCounters EXCEPT ![u] = NoObj] ELSE rlCounters
     IN /\ rlCounters' = m
        /\ heap' = Collect(heap, m, proc)
  /\ sweep' = [sweep EXCEPT !.todo = @ \ {u}]
  /\ UNCHANGED <<impl, dbVars, clock, rlMu, counters, proc, admitted>>

\* main.go cleanup, line 116: the deferred rl.mu.Unlock().
CleanupEnd ==
  /\ impl = "server"
  /\ sweep.pc = "scan"
  /\ sweep.todo = {}
  /\ rlMu' = "free"
  /\ sweep' = IdleSweep
  /\ UNCHANGED <<impl, dbVars, clock, rlCounters, heap, counters, proc, admitted>>

\* a rejection that starts the window again
IsAllowedStepSlides(c, now) ==
  IF c = Absent THEN [counter |-> [Count |-> 1, LastReset |-> now], ok |-> TRUE]
  ELSE IF now - c.LastReset >= Minute
       THEN [counter |-> [Count |-> 1, LastReset |-> now], ok |-> TRUE]
  ELSE IF c.Count >= Limit THEN [counter |-> [c EXCEPT !.LastReset = now], ok |-> FALSE]
  ELSE [counter |-> [c EXCEPT !.Count = @ + 1], ok |-> TRUE]

\* ratelimit.go IsAllowed, lines 38-62: the new counter and the decision.
IsAllowedStep(c, now) ==
  IF c = Absent THEN [counter |-> [Count |-> 1, LastReset |-> now], ok |-> TRUE]
  ELSE IF now - c.LastReset >= Minute
       THEN [counter |-> [Count |-> 1, LastReset |-> now], ok |-> TRUE]
  ELSE IF c.Count >= Limit THEN [counter |-> c, ok |-> FALSE]
  ELSE [counter |-> [c EXCEPT !.Count = @ + 1], ok |-> TRUE]

\* ratelimit.go IsAllowed, lines 34-63: the whole call holds rl.mu.
IsAllowed(p) ==
  /\ impl = "handler"
  /\ proc[p].pc = "allow"
  /\ LET u == proc[p].userID
         r == IsAllowedStep(counters[u], clock)
         fresh == counters[u] = Absent \/ r.counter.LastReset # counters[u].LastReset
     IN /\ counters' = [counters EXCEPT ![u] = r.counter]
        /\ proc' = [proc EXCEPT ![p].allowed = r.ok, ![p].pc = "allow_ret"]
        /\ admitted' = [admitted EXCEPT ![u] =
                          IF fresh THEN 1 ELSE IF r.ok THEN @ + 1 ELSE @]
  /\ UNCHANGED <<impl, dbVars, clock, rlCounters, heap, rlMu, sweep>>

\* ratelimit.go cleanup, line 71.
SweepExpired(c, now) == now - c.LastReset >= Minute

\* ratelimit.go cleanup, lines 65-75: one pass under rl.mu.
Cleanup ==
  /\ impl = "handler"
  /\ \E u \in Users : counters[u] # Absent
  /\ counters' = [u \in Users |->
                    IF counters[u] # Absent /\ SweepExpired(counters[u], clock)
                    THEN Absent ELSE counters[u]]
  /\ UNCHANGED <<impl, dbVars, clock, rlCounters, heap, rlMu, sweep, proc, admitted>>

\* time passes
Tick ==
  /\ clock + Step <= MaxTime
  /\ clock' = clock + Step
  /\ UNCHANGED <<impl, dbVars, rlVars, proc>>


(* ---------------------------------------------------------- quota ledger *)

Row(w, t) == [words_left |-> w, total_words |-> t]
Entry(v) == [val |-> v]
Did(p, e) == proc[p].effects \cup e

\* a read that takes the entry without looking at the error of the Get
CacheHitAnyway(e, fail) == e # NoEntry

\* main.go getUserWordsLeft, lines 333-339: the cache is read first; any error
\* of the Get (a miss, an unreachable cache) falls through to the store.
CacheHit(e, fail) == ~fail /\ e # NoEntry

AvailCache(p) ==
  /\ impl = "server"
  /\ proc[p].pc = "avail"
  /\ \E fail \in BOOLEAN :
       LET e == cache[proc[p].userID] IN
       proc' = [proc EXCEPT
                  ![p].pc = IF CacheHit(e, fail) THEN "avail_ret" ELSE "avail_db",
                  ![p].wordsLeft = IF CacheHit(e, fail) THEN e.val ELSE @,
                  ![p].cacheFailed = fail,
                  ![p].effects = Did(p, {"cache_read"})]
  /\ UNCHANGED <<impl, clock, rlVars, dbVars>>

\* main.go getUserWordsLeft, lines 342-357: the SELECT and its three outcomes.
AvailSelect(p) ==
  /\ impl = "server"
  /\ proc[p].pc = "avail_db"
  /\ \E fail \in BOOLEAN :
       LET r == users[proc[p].userID] IN
       proc' = [proc EXCEPT
                  ![p].pc = IF fail THEN "avail_ret"
                            ELSE IF r = NoRow THEN "avail_insert" ELSE "avail_set",
                  ![p].err = fail,
                  ![p].dbFailed = fail,
                  ![p].wordsLeft = IF fail THEN 0 ELSE IF r = NoRow THEN @ ELSE r.words_left,
                  ![p].effects = Did(p, {"quota_read"})]
  /\ UNCHANGED <<impl, clock, rlVars, dbVars>>

\* main.go getUserWordsLeft, lines 346-354: the INSERT of the default row; it
\* fails on a store error and on a duplicate key.
AvailInsert(p) ==
  /\ impl = "server"
  /\ proc[p].pc = "avail_insert"
  /\ LET u == proc[p].userID IN
     \E fail \in BOOLEAN :
       IF fail \/ users[u] # NoRow
       THEN /\ proc' = [proc EXCEPT ![p].pc = "avail_ret", ![p].err = TRUE,
                                    ![p].dbFailed = TRUE, ![p].wordsLeft = 0]
            /\ UNCHANGED <<users, ledger>>
       ELSE /\ proc' = [proc EXCEPT ![p].pc = "avail_ret", ![p].err = FALSE,
                                    ![p].wordsLeft = DefaultWords,
                                    ![p].effects = Did(p, {"user_create"})]
            /\ users' = [users EXCEPT ![u] = Row(DefaultWords, DefaultWords)]
            /\ ledger' = [ledger EXCEPT ![u].initial = DefaultWords]
  /\ UNCHANGED <<impl, clock, rlVars, requests, rowLock, cache, statsCache>>

\* main.go getUserWordsLeft, lines 360-361: the value read is cached; the
\* result of the Set is not looked at.
AvailSet(p) ==
  /\ impl = "server"
  /\ proc[p].pc = "avail_set"
  /\ \E fail \in BOOLEAN :
       cache' = IF fail THEN cache
                ELSE [cache EXCEPT ![proc[p].userID] = Entry(proc[p].wordsLeft)]
  /\ proc' = [proc EXCEPT ![p].pc = "avail_ret", ![p].effects = Did(p, {"cache_write"})]
  /\ UNCHANGED <<impl, clock, rlVars, users, requests, rowLock, statsCache, ledger>>

\* models.go GetOrCreateUser, lines 66-73 and 88-90: the SELECT.
GetOrCreateUserSelect(p) ==
  /\ impl = "handler"
  /\ proc[p].pc = "avail"
  /\ \E fail \in BOOLEAN :
       LET r == users[proc[p].userID] IN
       proc' = [proc EXCEPT
                  ![p].pc = IF ~fail /\ r = NoRow THEN "avail_insert" ELSE "avail_ret",
                  ![p].err = fail,
                  ![p].dbFailed = fail,
                  ![p].wordsLeft = IF fail THEN 0 ELSE IF r = NoRow THEN @ ELSE r.words_left,
                  ![p].effects = Did(p, {"quota_read"})]
  /\ UNCHANGED <<impl, clock, rlVars, dbVars>>

\* models.go GetOrCreateUser, lines 73-87: the INSERT of a user with 1M words.
GetOrCreateUserInsert(p) ==
  /\ impl = "handler"
  /\ proc[p].pc = "avail_insert"
  /\ LET u == proc[p].userID IN
     \E fail \in BOOLEAN :
       IF fail \/ users[u] # NoRow
       THEN /\ proc' = [proc EXCEPT ![p].pc = "avail_ret", ![p].err = TRUE,
                                    ![p].dbFailed = TRUE, ![p].wordsLeft = 0]
            /\ UNCHANGED <<users, ledger>>
       ELSE /\ proc' = [proc EXCEPT ![p].pc = "avail_ret", ![p].err = FALSE,
                                    ![p].wordsLeft = DefaultWords,
                                    ![p].effects = Did(p, {"user_create"})]
            /\ users' = [users EXCEPT ![u] = Row(DefaultWords, DefaultWords)]
            /\ ledger' = [ledger EXCEPT ![u].initial = DefaultWords]
  /\ UNCHANGED <<impl, clock, rlVars, requests, rowLock, cache, statsCache>>

\* the decrement without its floor
NewWordsLeftUnclamped(wordsLeft, wordCount) == wordsLeft - wordCount

\* main.go decrementWordsByCount, lines 382-385.
NewWordsLeft(wordsLeft, wordCount) ==
  IF wordsLeft - wordCount < 0 THEN 0 ELSE wordsLeft - wordCount

\* a read that takes no row lock
RowFreeNoLock(u, p) == TRUE

\* main.go decrementWordsByCount, line 376: SELECT ... FOR UPDATE waits while
\* another transaction holds the row.
RowFree(u, p) == rowLock[u] = 0

\* main.go decrementWordsByCount, lines 366-380: Begin, then the locking read.
DecrementSelect(p) ==
  /\ impl = "server"
  /\ proc[p].pc = "charge"
  /\ LET u == proc[p].userID IN
     \E fail \in BOOLEAN :
       IF fail \/ users[u] = NoRow
       THEN /\ proc' = [proc EXCEPT ![p].pc = "charge_ret", ![p].chargeErr = TRUE,
                                    ![p].effects = Did(p, {"charge"})]
            /\ UNCHANGED rowLock
       ELSE /\ RowFree(u, p)
            /\ rowLock' = [rowLock EXCEPT ![u] = p]
            /\ proc' = [proc EXCEPT ![p].pc = "charge_update",
                                    ![p].txWordsLeft = users[u].words_left,
                                    ![p].effects = Did(p, {"charge"})]
  /\ UNCHANGED <<impl, clock, rlVars, users, requests, cache, statsCache, ledger>>

\* an UPDATE outside the transaction: the row changes before the Commit
DecrementUpdateNoTx(p) ==
  /\ impl = "server"
  /\ proc[p].pc = "charge_update"
  /\ \E fail \in BOOLEAN :
       IF fail
       THEN /\ proc' = [proc EXCEPT ![p].pc = "charge_ret", ![p].chargeErr = TRUE]
            /\ rowLock' = [rowLock EXCEPT ![proc[p].userID] = 0]
            /\ UNCHANGED users
       ELSE /\ proc' = [proc EXCEPT ![p].pc = "charge_commit",
                          ![p].newWordsLeft = NewWordsLeft(proc[p].txWordsLeft, proc[p].amount)]
            /\ users' = [users EXCEPT ![proc[p].userID].words_left =
                            NewWordsLeft(proc[p].txWordsLeft, proc[p].amount)]
            /\ UNCHANGED rowLock
  /\ UNCHANGED <<impl, clock, rlVars, requests, cache, statsCache, ledger>>

\* main.go decrementWordsByCount, lines 382-393: the new value and the UPDATE
\* inside the transaction; an error rolls back (line 371).
DecrementUpdate(p) ==
  /\ impl = "server"
  /\ proc[p].pc = "charge_update"
  /\ \E fail \in BOOLEAN :
       IF fail
       THEN /\ proc' = [proc EXCEPT ![p].pc = "charge_ret", ![p].chargeErr = TRUE]
            /\ rowLock' = [rowLock EXCEPT ![proc[p].userID] = 0]
       ELSE /\ proc' = [proc EXCEPT ![p].pc = "charge_commit",
                          ![p].newWordsLeft = NewWordsLeft(proc[p].txWordsLeft, proc[p].amount)]
            /\ UNCHANGED rowLock
  /\ UNCHANGED <<impl, clock, rlVars, users, requests, cache, statsCache, ledger>>

\* an UPDATE without its WHERE user_id = ?
DecrementCommitNoWhere(p) ==
  /\ impl = "server"
  /\ proc[p].pc = "charge_commit"
  /\ LET u == proc[p].userID IN
     \E fail \in BOOLEAN :
       IF fail
       THEN /\ proc' = [proc EXCEPT ![p].pc = "charge_ret", ![p].chargeErr = TRUE]
            /\ UNCHANGED <<users, ledger>>
       ELSE /\ proc' = [proc EXCEPT ![p].pc = "charge_set", ![p].chargeErr = FALSE]
            /\ users' = [v \in DOMAIN users |->
                           IF users[v] = NoRow THEN NoRow
                           ELSE [users[v] EXCEPT !.words_left = proc[p].newWordsLeft]]
            /\ ledger' = [ledger EXCEPT ![u].charged = @ + proc[p].amount]
  /\ rowLock' = [rowLock EXCEPT ![proc[p].userID] = 0]
  /\ UNCHANGED <<impl, clock, rlVars, requests, cache, statsCache>>

\* main.go decrementWordsByCount, lines 395-398: Commit publishes the UPDATE and
\* releases the row; a failed Commit rolls back.
DecrementCommit(p) ==
  /\ impl = "server"
  /\ proc[p].pc = "charge_commit"
  /\ LET u == proc[p].userID IN
     \E fail \in BOOLEAN :
       IF fail
       THEN /\ proc' = [proc EXCEPT ![p].pc = "charge_ret", ![p].chargeErr = TRUE]
            /\ UNCHANGED <<users, ledger>>
       ELSE /\ proc' = [proc EXCEPT ![p].pc = "charge_set", ![p].chargeErr = FALSE]
            /\ users' = [users EXCEPT ![u].words_left = proc[p].newWordsLeft]
            /\ ledger' = [ledger EXCEPT ![u].charged = @ + proc[p].amount]
  /\ rowLock' = [rowLock EXCEPT ![proc[p].userID] = 0]
  /\ UNCHANGED <<impl, clock, rlVars, requests, cache, statsCache>>

\* main.go decrementWordsByCount, lines 401-403: the cache entry is set to the
\* new value; the result of the Set is not looked at.
DecrementCacheSet(p) ==
  /\ impl = "server"
  /\ proc[p].pc = "charge_set"
  /\ \E fail \in BOOLEAN :
       cache' = IF fail THEN cache
                ELSE [cache EXCEPT ![proc[p].userID] = Entry(proc[p].newWordsLeft)]
  /\ proc' = [proc EXCEPT ![p].pc = "charge_ret", ![p].effects = Did(p, {"cache_write"})]
  /\ UNCHANGED <<impl, clock, rlVars, users, requests, rowLock, statsCache, ledger>>

\* an UPDATE that charges one word too few
Greatest0OffByOne(words_left, wordsUsed) ==
  IF words_left - wordsUsed + 1 > 0 THEN words_left - wordsUsed + 1 ELSE 0

\* models.go UpdateWordsLeft, line 96: GREATEST(0, words_left - ?).
Greatest0(words_left, wordsUsed) ==
  IF words_left - wordsUsed > 0 THEN words_left - wordsUsed ELSE 0

\* models.go UpdateWordsLeft, lines 95-102: one UPDATE statement.
UpdateWordsLeft(p) ==
  /\ impl = "handler"
  /\ proc[p].pc = "charge"
  /\ LET u == proc[p].userID IN
     \E fail \in BOOLEAN :
       IF fail
       THEN /\ proc' = [proc EXCEPT ![p].pc = "charge_ret", ![p].chargeErr = TRUE,
                                    ![p].effects = Did(p, {"charge"})]
            /\ UNCHANGED <<users, ledger>>
       ELSE /\ proc' = [proc EXCEPT ![p].pc = "charge_del", ![p].chargeErr = FALSE,
                                    ![p].effects = Did(p, {"charge"})]
            /\ users' = IF users[u] = NoRow THEN users
                        ELSE [users EXCEPT ![u].words_left = Greatest0(@, proc[p].amount)]
            /\ ledger' = IF users[u] = NoRow THEN ledger
                         ELSE [ledger EXCEPT ![u].charged = @ + proc[p].amount]
  /\ UNCHANGED <<impl, clock, rlVars, requests, rowLock, cache, statsCache>>

\* models.go GenerateData, lines 330-332: after a successful update the stats
\* entry of the user is deleted, best effort.
CacheDel(p) ==
  /\ impl = "handler"
  /\ proc[p].pc = "charge_del"
  /\ \E fail \in BOOLEAN :
       statsCache' = IF fail THEN statsCache
                     ELSE [statsCache EXCEPT ![proc[p].userID] = NoEntry]
  /\ proc' = [proc EXCEPT ![p].pc = "charge_ret", ![p].effects = Did(p, {"cache_write"})]
  /\ UNCHANGED <<impl, clock, rlVars, users, requests, rowLock, cache, ledger>>

\* redis drops an entry when its TTL of five minutes ends
CacheExpire(u) ==
  /\ cache[u] # NoEntry
  /\ cache' = [cache EXCEPT ![u] = NoEntry]
  /\ UNCHANGED <<impl, clock, rlVars, users, requests, rowLock, statsCache, ledger, proc>>


(* ------------------------------------------------------ quota inspection *)

\* main.go User, lines 48-52: the body the server answers with.
User(u, r) == [user_id |-> u, words_left |-> r.words_left, total_words |-> r.total_words]

\* models.go UserStats, lines 23-27, and GetUserStats, line 113.
UserStats(u, r) ==
  [user_id |-> u, words_left |-> r.words_left, total_words |-> r.total_words,
   words_used |-> r.total_words - r.words_left]

\* main.go getUserStatsHandler, lines 425-429 and 445-452: the SELECT; the
\* cache is not asked.
StatsHandlerSelect(p) ==
  /\ impl = "server"
  /\ proc[p].pc = "stats"
  /\ \E fail \in BOOLEAN :
       LET u == proc[p].userID
           r == users[u] IN
       proc' = [proc EXCEPT
                  ![p].pc = IF ~fail /\ r = NoRow THEN "stats_insert" ELSE "stats_ret",
                  ![p].dbFailed = fail,
                  ![p].found = IF fail THEN "none" ELSE IF r = NoRow THEN "norow" ELSE "row",
                  ![p].status = IF fail THEN 500 ELSE IF r = NoRow THEN @ ELSE 200,
                  ![p].body = IF fail \/ r = NoRow THEN @ ELSE User(u, r),
                  ![p].effects = Did(p, {"quota_read"})]
  /\ UNCHANGED <<impl, clock, rlVars, dbVars>>

\* main.go getUserStatsHandler, lines 431-444: the INSERT of the default row;
\* it fails on a store error and on a duplicate key.
StatsHandlerInsert(p) ==
  /\ impl = "server"
  /\ proc[p].pc = "stats_insert"
  /\ LET u == proc[p].userID IN
     \E fail \in BOOLEAN :
       IF fail \/ users[u] # NoRow
       THEN /\ proc' = [proc EXCEPT ![p].pc = "stats_ret", ![p].status = 500,
                                    ![p].dbFailed = TRUE]
            /\ UNCHANGED <<users, ledger>>
       ELSE /\ proc' = [proc EXCEPT ![p].pc = "stats_ret", ![p].status = 200,
                                    ![p].body = User(u, Row(DefaultWords, DefaultWords)),
                                    ![p].effects = Did(p, {"user_create"})]
            /\ users' = [users EXCEPT ![u] = Row(DefaultWords, DefaultWords)]
            /\ ledger' = [ledger EXCEPT ![u].initial = DefaultWords]
  /\ UNCHANGED <<impl, clock, rlVars, requests, rowLock, cache, statsCache>>

\* models.go GetUserStats (handler), lines 345-349: the entry of the user, if
\* redis answers with one, is the response.
GetUserStatsCached(p) ==
  /\ impl = "handler"
  /\ proc[p].pc = "stats"
  /\ \E fail \in BOOLEAN :
       LET e == statsCache[proc[p].userID] IN
       proc' = [proc EXCEPT
                  ![p].pc = IF CacheHit(e, fail) THEN "stats_ret" ELSE "stats_db",
                  ![p].cacheFailed = fail,
                  ![p].found = IF CacheHit(e, fail) THEN "cache" ELSE @,
                  ![p].status = IF CacheHit(e, fail) THEN 200 ELSE @,
                  ![p].body = IF CacheHit(e, fail) THEN e.val ELSE @,
                  ![p].effects = Did(p, {"cache_read"})]
  /\ UNCHANGED <<impl, clock, rlVars, dbVars>>

\* models.go line 354: err == sql.ErrNoRows, on an error that may have been
\* wrapped by fmt.Errorf.
IsErrNoRows(norow, wrapped) == norow /\ ~wrapped

\* models.go GetUserStats (service), lines 104-115, and the handler's lines
\* 352-358: the SELECT, whose error the service wraps; no row is created.
GetUserStats(p) ==
  /\ impl = "handler"
  /\ proc[p].pc = "stats_db"
  /\ \E fail \in BOOLEAN :
       LET u == proc[p].userID
           r == users[u]
           err == fail \/ r = NoRow IN
       proc' = [proc EXCEPT
                  ![p].pc = IF err THEN "stats_ret" ELSE "stats_set",
                  ![p].dbFailed = fail,
                  ![p].found = IF fail THEN "none" ELSE IF r = NoRow THEN "norow" ELSE "row",
                  ![p].status = IF ~err THEN @
                                ELSE IF IsErrNoRows(~fail, TRUE) THEN 404 ELSE 500,
                  ![p].body = IF err THEN @ ELSE UserStats(u, r),
                  ![p].effects = Did(p, {"quota_read"})]
  /\ UNCHANGED <<impl, clock, rlVars, dbVars>>

\* models.go GetUserStats (handler), lines 360-365: the stats are cached for
\* five minutes, best effort, and sent.
GetUserStatsSet(p) ==
  /\ impl = "handler"
  /\ proc[p].pc = "stats_set"
  /\ \E fail \in BOOLEAN :
       statsCache' = IF fail THEN statsCache
                     ELSE [statsCache EXCEPT ![proc[p].userID] = Entry(proc[p].body)]
  /\ proc' = [proc EXCEPT ![p].pc = "stats_ret", ![p].status = 200,
                          ![p].effects = Did(p, {"cache_write"})]
  /\ UNCHANGED <<impl, clock, rlVars, users, requests, rowLock, cache, ledger>>

\* redis drops the stats entry when its TTL of five minutes ends
StatsExpire(u) ==
  /\ statsCache[u] # NoEntry
  /\ statsCache' = [statsCache EXCEPT ![u] = NoEntry]
  /\ UNCHANGED <<impl, clock, rlVars, users, requests, rowLock, cache, ledger, proc>>


(* --------------------------------------------------------- liveness probe *)

\* main.go healthHandler, lines 454-479: the two pings and the map sent.
healthHandler(p) ==
  /\ impl = "server"
  /\ proc[p].pc = "health"
  /\ \E db \in BOOLEAN, redis \in BOOLEAN :
       proc' = [proc EXCEPT
                  ![p].pc = "health_ret", ![p].dbUp = db, ![p].redisUp = redis,
                  ![p].status = 200,
                  ![p].body = [status |-> IF db THEN "healthy" ELSE "degraded",
                               database |-> IF db THEN "healthy" ELSE "unhealthy",
                               redis |-> IF redis THEN "healthy" ELSE "unhealthy"]]
  /\ UNCHANGED <<impl, clock, rlVars, dbVars>>

\* models.go HealthCheck, lines 193-216: the store is probed by the stats of
\* the user "healthcheck-probe", whose row may or may not exist; the status
\* sent is the literal "healthy".
HealthCheck(p) ==
  /\ impl = "handler"
  /\ proc[p].pc = "health"
  /\ \E db \in BOOLEAN, redis \in BOOLEAN, probeRow \in BOOLEAN :
       proc' = [proc EXCEPT
                  ![p].pc = "health_ret", ![p].dbUp = db, ![p].redisUp = redis,
                  ![p].status = 200,
                  ![p].body = [status |-> "healthy",
                               database |-> IF db /\ probeRow THEN "healthy" ELSE "unhealthy",
                               redis |-> IF redis THEN "healthy" ELSE "unhealthy"]]
  /\ UNCHANGED <<impl, clock, rlVars, dbVars>>


(* ------------------------------------------------------ streaming session *)

\* models.go GenerateRandomWords, lines 128-139: the vocabulary (a sample of it).
words == <<"the", "day">>

StopTokens == {"", "day"}
MaxTokensSet == {-1, 1}
Seeds == 0..(NSeeds - 1)

\* rand.New(rand.NewSource(seed)): the source is a function of the seed alone.
NewSource(seed) == seed % RandMod
RandNext(r) == (5 * r + 3) % RandMod
Intn(r, n) == RandNext(r) % n

\* services.GenerateRandomWords(streamRand, 1, stopToken): one word drawn from
\* the session's source, and whether it is the stop token.
GenerateRandomWords(r, stopToken) ==
  LET w == words[Intn(r, Len(words)) + 1] IN
  [word |-> w, stopTokenFound |-> (stopToken # "" /\ w = stopToken), rand |-> RandNext(r)]

\* the tokens among the pieces of a text
Tokens(text) == SelectSeq(text, LAMBDA x : x # " ")

\* main.go generateDataHandler, lines 224-232, and models.go GenerateData,
\* lines 234-255: the user id and the optional controls of the request.
BeginSession(p) ==
  /\ proc[p].pc = "idle"
  /\ \E u \in Users \cup {0} :
       IF u = 0
       THEN proc' = [proc EXCEPT ![p] = [IdleProc EXCEPT !.pc = "done", !.op = "Handle",
                                                          !.status = 400]]
       ELSE \E st \in (IF impl = "handler" THEN StopTokens ELSE {""}),
               mt \in (IF impl = "handler" THEN MaxTokensSet ELSE {-1}),
               seed \in (IF impl = "handler" THEN Seeds ELSE {0}) :
              proc' = [proc EXCEPT ![p] =
                         [IdleProc EXCEPT !.pc = "allow", !.op = "Handle", !.userID = u,
                                          !.stopToken = st, !.maxTokens = mt,
                                          !.seed = seed,
                                          !.streamRand = NewSource(seed)]]
  /\ UNCHANGED <<impl, clock, rlVars, dbVars>>

\* a request arrives; NSessions requests are followed
Begin(p) ==
  /\ Cardinality({q \in Procs : proc[q].op = "Handle"}) < NSessions
  /\ BeginSession(p)

\* a handler that does not look at the limiter's answer
AdmitNeverRejects(allowed) == FALSE

\* main.go lines 235-238, models.go lines 258-261: a rejected request ends here.
AdmitRejects(allowed) == ~allowed

HandleAdmit(p) ==
  /\ proc[p].pc = "allow_ret"
  /\ proc[p].op = "Handle"
  /\ proc' = IF AdmitRejects(proc[p].allowed)
             THEN [proc EXCEPT ![p].pc = "done", ![p].status = 429]
             ELSE [proc EXCEPT ![p].pc = "avail"]
  /\ UNCHANGED <<impl, clock, rlVars, dbVars>>

\* main.go line 287: the values of rand.Intn(400) the model draws.
IntnSamples == {0}

\* a handler that drops the error of the quota read
ReadNeverFailed(err) == FALSE

\* main.go line 242, models.go line 265.
ReadFailed(err) == err

\* a quota check that lets zero through
NoWordsLeftStrict(wordsLeft) == wordsLeft < 0

\* main.go line 248, models.go line 268.
NoWordsLeft(wordsLeft) == wordsLeft <= 0

\* main.go lines 241-264 and 287, models.go lines 264-279: the outcome of the
\* quota read; the stream starts with status 200.
HandleAvail(p) ==
  /\ proc[p].pc = "avail_ret"
  /\ proc[p].op = "Handle"
  /\ IF ReadFailed(proc[p].err)
     THEN proc' = [proc EXCEPT ![p].pc = "done", ![p].status = 500]
     ELSE IF NoWordsLeft(proc[p].wordsLeft)
     THEN proc' = [proc EXCEPT ![p].pc = "done", ![p].status = 403]
     ELSE \E r \in IntnSamples :
            proc' = [proc EXCEPT ![p].pc = "stream", ![p].status = 200,
                                 ![p].maxWords = IF impl = "server" THEN 100 + r ELSE 0]
  /\ UNCHANGED <<impl, clock, rlVars, dbVars>>

\* main.go line 295.
ServerStops(q) == q.wordCount >= q.maxWords

\* a loop that forgets the cap the caller asked for
HandlerStopsNoCap(q) == q.wordCount >= q.wordsLeft

\* models.go line 290.
HandlerStops(q) ==
  (q.maxTokens # -1 /\ q.wordCount >= q.maxTokens) \/ q.wordCount >= q.wordsLeft

LoopStops(q) == IF impl = "server" THEN ServerStops(q) ELSE HandlerStops(q)

\* a loop that goes from its exit to the charge, past the save
StreamStopPastSave(p) ==
  /\ proc[p].pc = "stream"
  /\ proc[p].ctxDone \/ LoopStops(proc[p])
  /\ proc' = [proc EXCEPT ![p].pc = "charge", ![p].amount = proc[p].wordCount]
  /\ UNCHANGED <<impl, clock, rlVars, dbVars>>

\* a loop without the case for the context
StreamStopOnCapOnly(p) ==
  /\ proc[p].pc = "stream"
  /\ LoopStops(proc[p])
  /\ proc' = [proc EXCEPT ![p].pc = "save"]
  /\ UNCHANGED <<impl, clock, rlVars, dbVars>>

\* main.go lines 290-297, models.go lines 284-292: the loop ends at the top of
\* an iteration, on the context or on a cap.
StreamStop(p) ==
  /\ proc[p].pc = "stream"
  /\ proc[p].ctxDone \/ LoopStops(proc[p])
  /\ proc' = [proc EXCEPT ![p].pc = "save"]
  /\ UNCHANGED <<impl, clock, rlVars, dbVars>>

\* main.go lines 299-313: one iteration. The word is appended before it is
\* written and the results of the writes are not looked at.
ServerEmit(q, w, written) ==
  [q EXCEPT !.generatedData = Append(@, w),
            !.sink = IF ~written THEN @
                     ELSE IF q.wordCount > 0 THEN @ \o <<" ", w>> ELSE @ \o <<w>>,
            !.wordCount = @ + 1,
            !.effects = IF written THEN @ \cup {"emit"} ELSE @]

\* the states of a random source
RandStates == 0..(RandMod - 1)

\* a draw from the source all sessions and all pacing delays share
DrawSourceShared(q, shared) == shared

\* models.go line 294: the word is drawn from the session's own source,
\* streamRand; the process-wide source (in state shared here) serves the pacing
\* delay of line 310 only.
DrawSource(q, shared) == q.streamRand

\* a loop that goes on after the stop token
HandlerEmitNoStop(q, written, shared) ==
  LET g == GenerateRandomWords(q.streamRand, q.stopToken) IN
  IF ~written
  THEN [q EXCEPT !.streamRand = g.rand, !.writeFailed = TRUE, !.pc = "done"]
  ELSE [q EXCEPT !.streamRand = g.rand,
                 !.sink = @ \o <<g.word, " ">>,
                 !.generatedData = @ \o <<g.word, " ">>,
                 !.wordCount = @ + 1,
                 !.effects = @ \cup {"emit"}]

\* models.go lines 294-311: one iteration. A failed write returns the error;
\* a stop token ends the loop after it was written.
HandlerEmit(q, written, shared) ==
  LET g == GenerateRandomWords(DrawSource(q, shared), q.stopToken) IN
  IF ~written
  THEN [q EXCEPT !.streamRand = g.rand, !.writeFailed = TRUE, !.pc = "done"]
  ELSE [q EXCEPT !.streamRand = g.rand,
                 !.sink = @ \o <<g.word, " ">>,
                 !.generatedData = @ \o <<g.word, " ">>,
                 !.wordCount = @ + 1,
                 !.effects = @ \cup {"emit"},
                 !.pc = IF g.stopTokenFound THEN "save" ELSE "stream"]

\* One iteration of the loop and the pacing delay after it. A write to a
\* connection the client has left may fail or may still be accepted.
StreamEmit(p) ==
  /\ proc[p].pc = "stream"
  /\ ~proc[p].ctxDone
  /\ ~LoopStops(proc[p])
  /\ proc[p].wordCount < MaxEmit
  /\ \E written \in (IF proc[p].connOpen THEN {TRUE} ELSE BOOLEAN) :
       IF impl = "server"
       THEN \E i \in 1..Len(words) :
              proc' = [proc EXCEPT ![p] = ServerEmit(proc[p], words[i], written)]
       ELSE \E shared \in RandStates :
              proc' = [proc EXCEPT ![p] = HandlerEmit(proc[p], written, shared)]
  /\ UNCHANGED <<impl, clock, rlVars, dbVars>>

\* the client goes away while the response streams
ClientDisconnect(p) ==
  /\ proc[p].pc = "stream"
  /\ proc[p].connOpen
  /\ proc' = [proc EXCEPT ![p].connOpen = FALSE]
  /\ UNCHANGED <<impl, clock, rlVars, dbVars>>

\* main.go line 267, models.go line 278: the context of the stream is done, by
\* the deadline of one minute or by the cancellation of the request.
ContextDone(p) ==
  /\ proc[p].pc = "stream"
  /\ ~proc[p].ctxDone
  /\ proc' = [proc EXCEPT ![p].ctxDone = TRUE]
  /\ UNCHANGED <<impl, clock, rlVars, dbVars>>

\* main.go line 323: strings.Join(generatedData, " ").
Join(ws) ==
  LET J[i \in 0..Len(ws)] ==
        IF i = 0 THEN <<>> ELSE IF i = 1 THEN <<ws[1]>> ELSE J[i - 1] \o <<" ", ws[i]>>
  IN J[Len(ws)]

\* the text handed to the INSERT: main.go line 323, models.go line 322
DataOf(q) == IF impl = "server" THEN Join(q.generatedData) ELSE q.generatedData

\* a reconciliation that gives up when the request row cannot be saved
SaveRequestOrAbort(p) ==
  /\ proc[p].pc = "save"
  /\ \E fail \in BOOLEAN :
       /\ requests' = IF fail THEN requests
                      ELSE Append(requests, [user_id |-> proc[p].userID,
                                             data |-> DataOf(proc[p]), by |-> p])
       /\ proc' = [proc EXCEPT ![p].pc = IF fail THEN "done" ELSE "charge",
                               ![p].amount = proc[p].wordCount,
                               ![p].saved = IF fail THEN @ ELSE <<DataOf(proc[p])>>,
                               ![p].effects = @ \cup {"save"}]
  /\ UNCHANGED <<impl, clock, rlVars, users, rowLock, cache, statsCache, ledger>>

\* main.go saveRequest, lines 409-416, models.go SaveRequest, lines 117-124 with
\* GenerateData lines 316-327: the request row is inserted; an error is logged.
\* Then the charge starts with the words counted: main.go line 326, models.go
\* line 330.
SaveRequest(p) ==
  /\ proc[p].pc = "save"
  /\ \E fail \in BOOLEAN :
       /\ requests' = IF fail THEN requests
                      ELSE Append(requests, [user_id |-> proc[p].userID,
                                             data |-> DataOf(proc[p]), by |-> p])
       /\ proc' = [proc EXCEPT ![p].pc = "charge",
                               ![p].amount = proc[p].wordCount,
                               ![p].saved = IF fail THEN @ ELSE <<DataOf(proc[p])>>,
                               ![p].effects = @ \cup {"save"}]
  /\ UNCHANGED <<impl, clock, rlVars, users, rowLock, cache, statsCache, ledger>>

\* a reconciliation that charges again after a failed charge
HandleChargedRetry(p) ==
  /\ proc[p].pc = "charge_ret"
  /\ proc[p].op = "Handle"
  /\ proc' = [proc EXCEPT ![p].pc = IF proc[p].chargeErr THEN "charge" ELSE "done"]
  /\ UNCHANGED <<impl, clock, rlVars, dbVars>>

\* main.go line 326, models.go lines 330-334: the request is over.
HandleCharged(p) ==
  /\ proc[p].pc = "charge_ret"
  /\ proc[p].op = "Handle"
  /\ proc' = [proc EXCEPT ![p].pc = "done"]
  /\ UNCHANGED <<impl, clock, rlVars, dbVars>>

(* --------------------------------------------------- limiter on its own *)

\* a caller invokes Admit for some user
CallAdmit(p) ==
  /\ proc[p].pc = "idle"
  /\ \E u \in Users :
       proc' = [proc EXCEPT ![p] = [IdleProc EXCEPT !.pc = "allow", !.op = "Admit", !.userID = u]]
  /\ UNCHANGED <<impl, dbVars, clock, rlVars>>

\* the call returns to the caller
AdmitReturn(p) ==
  /\ proc[p].pc = "allow_ret"
  /\ proc[p].op = "Admit"
  /\ proc' = [proc EXCEPT ![p] = IdleProc]
  /\ UNCHANGED <<impl, dbVars, clock, rlVars>>


\* another request reads the quota of some user
CallAvailable(p) ==
  /\ proc[p].pc = "idle"
  /\ \E u \in Users :
       proc' = [proc EXCEPT ![p] = [IdleProc EXCEPT !.pc = "avail", !.op = "Available",
                                                     !.userID = u]]
  /\ UNCHANGED <<impl, clock, rlVars, dbVars>>

AvailableReturn(p) ==
  /\ proc[p].pc = "avail_ret"
  /\ proc[p].op = "Available"
  /\ proc' = [proc EXCEPT ![p] = IdleProc]
  /\ UNCHANGED <<impl, clock, rlVars, dbVars>>

\* another request charges the words it streamed to some user
CallCharge(p) ==
  /\ proc[p].pc = "idle"
  /\ \E u \in Users, n \in 0..MaxAmount :
       /\ ledger[u].calls < MaxCalls
       /\ ledger' = [ledger EXCEPT ![u].calls = @ + 1]
       /\ proc' = [proc EXCEPT ![p] = [IdleProc EXCEPT !.pc = "charge", !.op = "Charge",
                                                       !.userID = u, !.amount = n]]
  /\ UNCHANGED <<impl, clock, rlVars, users, requests, rowLock, cache, statsCache>>

ChargeReturn(p) ==
  /\ proc[p].pc = "charge_ret"
  /\ proc[p].op = "Charge"
  /\ proc' = [proc EXCEPT ![p] = IdleProc]
  /\ UNCHANGED <<impl, clock, rlVars, dbVars>>

\* a caller asks for the stats of some user
CallStats(p) ==
  /\ proc[p].pc = "idle"
  /\ \E u \in Users :
       proc' = [proc EXCEPT ![p] = [IdleProc EXCEPT !.pc = "stats", !.op = "Stats",
                                                     !.userID = u]]
  /\ UNCHANGED <<impl, clock, rlVars, dbVars>>

StatsReturn(p) ==
  /\ proc[p].pc = "stats_ret"
  /\ proc[p].op = "Stats"
  /\ proc' = [proc EXCEPT ![p] = IdleProc]
  /\ UNCHANGED <<impl, clock, rlVars, dbVars>>

\* a caller probes the service
CallHealth(p) ==
  /\ proc[p].pc = "idle"
  /\ proc' = [proc EXCEPT ![p] = [IdleProc EXCEPT !.pc = "health", !.op = "Health"]]
  /\ UNCHANGED <<impl, clock, rlVars, dbVars>>

HealthReturn(p) ==
  /\ proc[p].pc = "health_ret"
  /\ proc[p].op = "Health"
  /\ proc' = [proc EXCEPT ![p] = IdleProc]
  /\ UNCHANGED <<impl, clock, rlVars, dbVars>>

InitBase ==
  /\ impl \in Impls
  /\ clock = 0
  /\ rlCounters = [u \in Users |-> NoObj]
  /\ heap = [i \in ObjIds |-> Free]
  /\ rlMu = "free"
  /\ sweep = IdleSweep
  /\ counters = [u \in Users |-> Absent]
  /\ proc = [p \in Procs |-> IdleProc]
  /\ admitted = [u \in Users |-> 0]
  /\ users = [u \in Users |-> NoRow]
  /\ requests = <<>>
  /\ rowLock = [u \in Users |-> 0]
  /\ cache = [u \in Users |-> NoEntry]
  /\ statsCache = [u \in Users |-> NoEntry]
  /\ ledger = [u \in Users |-> [initial |-> 0, charged |-> 0, calls |-> 0]]

NextRL ==
  \/ \E p \in Procs : CallAdmit(p)
  \/ \E p \in Procs : AllowLookup(p)
  \/ \E p \in Procs : AllowCreate(p)
  \/ \E p \in Procs : AllowLock(p)
  \/ \E p \in Procs : AllowBody(p)
  \/ \E p \in Procs : IsAllowed(p)
  \/ \E p \in Procs : AdmitReturn(p)
  \/ CleanupBegin
  \/ \E u \in Users : CleanupVisit(u)
  \/ CleanupEnd
  \/ Cleanup
  \/ Tick

SpecRL == InitBase /\ [][NextRL]_vars

\* The scheduling of the limiter's tasks: a task that waits for rl.mu or for a
\* counter's mutex gets it when it is released often enough (sync.Mutex and
\* sync.RWMutex hand the lock to waiters), and a task that can run does.
FairRL ==
  /\ \A p \in Procs :
       /\ SF_vars(AllowLookup(p)) /\ SF_vars(AllowCreate(p)) /\ SF_vars(AllowLock(p))
       /\ WF_vars(AllowBody(p)) /\ WF_vars(IsAllowed(p))
  /\ \A u \in Users : SF_vars(CleanupVisit(u))
  /\ WF_vars(CleanupEnd)

\* time passes until every window that is open has ended a minute ago
TickLong ==
  /\ clock = 0
  /\ clock' = MaxTime
  /\ UNCHANGED <<impl, dbVars, rlVars, proc>>

NextRLFair ==
  \/ \E p \in Procs : CallAdmit(p)
  \/ \E p \in Procs : AllowLookup(p)
  \/ \E p \in Procs : AllowCreate(p)
  \/ \E p \in Procs : AllowLock(p)
  \/ \E p \in Procs : AllowBody(p)
  \/ \E p \in Procs : IsAllowed(p)
  \/ \E p \in Procs : AdmitReturn(p)
  \/ CleanupBegin
  \/ \E u \in Users : CleanupVisit(u)
  \/ CleanupEnd
  \/ Cleanup
  \/ TickLong

SpecRLFair == InitBase /\ [][NextRLFair]_vars /\ FairRL

\* main.go Allow, lines 82-112, and ratelimit.go IsAllowed, lines 34-63, run
\* in one piece on the counter c (Absent: none) at the time now: the counter
\* left and the answer. It is the limiter with no sweep at its side.
AllowAlone(c, now) ==
  IF impl = "server"
  THEN LET c0 == IF c = Absent THEN [count |-> 0, resetTime |-> now + Minute, mu |-> 0]
                 ELSE c
           c1 == AllowReset(c0, now)
           ok == AllowDecide(c1, Limit)
       IN [counter |-> [c1 EXCEPT !.count = IF ok THEN @ + 1 ELSE @], ok |-> ok]
  ELSE IsAllowedStep(c, now)

\* the caller calls again; it keeps, next to the answers it gets, the counters
\* and the answers of a limiter that is given the same calls at the same
\* times and has no sweep, and the times of the calls admitted in the last
\* minute
CallAdmitSeq(p) ==
  /\ proc[p].pc = "idle"
  /\ \E u \in Users :
       proc' = [proc EXCEPT ![p].pc = "allow", ![p].op = "Admit", ![p].userID = u]
  /\ UNCHANGED <<impl, dbVars, clock, rlVars>>

AdmitReturnSeq(p) ==
  /\ proc[p].pc = "allow_ret"
  /\ proc[p].op = "Admit"
  /\ LET u == proc[p].userID
         r == AllowAlone(proc[p].ref[u], clock)
     IN proc' = [proc EXCEPT ![p].pc = "idle",
                             ![p].ref = [@ EXCEPT ![u] = r.counter],
                             ![p].refOk = r.ok,
                             ![p].recent =
                               IF proc[p].allowed
                               THEN Append(SelectSeq(@, LAMBDA t : t >= clock - Minute), clock)
                               ELSE @]
  /\ UNCHANGED <<impl, dbVars, clock, rlVars>>

\* time passes between two calls: a call takes far less than one step of the clock
TickIdle ==
  /\ \A p \in Procs : proc[p].pc = "idle"
  /\ Tick

\* one caller, one call at a time, and the sweep at any moment
NextSweep ==
  \/ CallAdmitSeq(1)
  \/ AllowLookup(1)
  \/ AllowCreate(1)
  \/ AllowLock(1)
  \/ AllowBody(1)
  \/ IsAllowed(1)
  \/ AdmitReturnSeq(1)
  \/ CleanupBegin
  \/ \E u \in Users : CleanupVisit(u)
  \/ CleanupEnd
  \/ Cleanup
  \/ TickIdle

SpecSweep == InitBase /\ [][NextSweep]_vars

\* one caller that remembers, one call at a time, no sweep
NextBurst ==
  \/ CallAdmitSeq(1)
  \/ AllowLookup(1)
  \/ AllowCreate(1)
  \/ AllowLock(1)
  \/ AllowBody(1)
  \/ IsAllowed(1)
  \/ AdmitReturnSeq(1)
  \/ TickIdle

SpecBurst == InitBase /\ [][NextBurst]_vars

\* one caller, one call at a time, no sweep
NextSeq ==
  \/ CallAdmit(1)
  \/ AllowLookup(1)
  \/ AllowCreate(1)
  \/ AllowLock(1)
  \/ AllowBody(1)
  \/ IsAllowed(1)
  \/ AdmitReturn(1)
  \/ TickIdle

SpecSeq == InitBase /\ [][NextSeq]_vars


(* ------------------------------------------------------ the whole service *)

InitWords == {0, 1}
InitRows == {NoRow} \cup {Row(w, DefaultWords) : w \in InitWords}
InitEntries == {NoEntry} \cup {Entry(w) : w \in InitWords}

\* The service after construction, over a store that holds the rows earlier
\* runs left in it and a cache that holds the entries they left (an entry
\* written by a quota read holds the words_left of its row).
Init ==
  /\ impl \in Impls
  /\ clock = 0
  /\ rlCounters = [u \in Users |-> NoObj]
  /\ heap = [i \in ObjIds |-> Free]
  /\ rlMu = "free"
  /\ sweep = IdleSweep
  /\ counters = [u \in Users |-> Absent]
  /\ admitted = [u \in Users |-> 0]
  /\ users \in [Users -> InitRows]
  /\ requests = <<>>
  /\ rowLock = [u \in Users |-> 0]
  /\ cache \in [Users -> InitEntries]
  /\ \A u \in Users : cache[u] # NoEntry =>
        impl = "server" /\ users[u] # NoRow /\ cache[u].val = users[u].words_left
  /\ statsCache = [u \in Users |-> NoEntry]
  /\ ledger = [u \in Users |->
                 [initial |-> IF users[u] = NoRow THEN 0 ELSE users[u].words_left,
                  charged |-> 0, calls |-> 0]]
  /\ proc = [p \in Procs |-> IdleProc]

Next ==
  \/ \E p \in Procs : Begin(p)
  \/ \E p \in Procs : AllowLookup(p)
  \/ \E p \in Procs : AllowCreate(p)
  \/ \E p \in Procs : AllowLock(p)
  \/ \E p \in Procs : AllowBody(p)
  \/ \E p \in Procs : IsAllowed(p)
  \/ \E p \in Procs : HandleAdmit(p)
  \/ \E p \in Procs : AvailCache(p)
  \/ \E p \in Procs : AvailSelect(p)
  \/ \E p \in Procs : AvailInsert(p)
  \/ \E p \in Procs : AvailSet(p)
  \/ \E p \in Procs : GetOrCreateUserSelect(p)
  \/ \E p \in Procs : GetOrCreateUserInsert(p)
  \/ \E p \in Procs : HandleAvail(p)
  \/ \E p \in Procs : StreamStop(p)
  \/ \E p \in Procs : StreamEmit(p)
  \/ \E p \in Procs : ClientDisconnect(p)
  \/ \E p \in Procs : ContextDone(p)
  \/ \E p \in Procs : SaveRequest(p)
  \/ \E p \in Procs : DecrementSelect(p)
  \/ \E p \in Procs : DecrementUpdate(p)
  \/ \E p \in Procs : DecrementCommit(p)
  \/ \E p \in Procs : DecrementCacheSet(p)
  \/ \E p \in Procs : UpdateWordsLeft(p)
  \/ \E p \in Procs : CacheDel(p)
  \/ \E p \in Procs : HandleCharged(p)
  \/ \E p \in Procs : CallAdmit(p)
  \/ \E p \in Procs : AdmitReturn(p)

Spec == Init /\ [][Next]_vars

NextLedger ==
  \/ \E p \in Procs : CallAvailable(p)
  \/ \E p \in Procs : AvailCache(p)
  \/ \E p \in Procs : AvailSelect(p)
  \/ \E p \in Procs : AvailInsert(p)
  \/ \E p \in Procs : AvailSet(p)
  \/ \E p \in Procs : GetOrCreateUserSelect(p)
  \/ \E p \in Procs : GetOrCreateUserInsert(p)
  \/ \E p \in Procs : AvailableReturn(p)
  \/ \E p \in Procs : CallCharge(p)
  \/ \E p \in Procs : DecrementSelect(p)
  \/ \E p \in Procs : DecrementUpdate(p)
  \/ \E p \in Procs : DecrementCommit(p)
  \/ \E p \in Procs : DecrementCacheSet(p)
  \/ \E p \in Procs : UpdateWordsLeft(p)
  \/ \E p \in Procs : CacheDel(p)
  \/ \E p \in Procs : ChargeReturn(p)
  \/ \E u \in Users : CacheExpire(u)

SpecLedger == Init /\ [][NextLedger]_vars

\* the handler revision serving the requests of all tasks at once
\* One request from its first line to its last, scheduled fairly: the timer of
\* the context fires (main.go line 267, models.go line 278) and a loop that
\* can leave at the top of an iteration does so.
NextLive ==
  \/ \E p \in Procs : Begin(p)
  \/ \E p \in Procs : AllowLookup(p)
  \/ \E p \in Procs : AllowCreate(p)
  \/ \E p \in Procs : AllowLock(p)
  \/ \E p \in Procs : AllowBody(p)
  \/ \E p \in Procs : IsAllowed(p)
  \/ \E p \in Procs : HandleAdmit(p)
  \/ \E p \in Procs : AvailCache(p)
  \/ \E p \in Procs : AvailSelect(p)
  \/ \E p \in Procs : AvailInsert(p)
  \/ \E p \in Procs : AvailSet(p)
  \/ \E p \in Procs : GetOrCreateUserSelect(p)
  \/ \E p \in Procs : GetOrCreateUserInsert(p)
  \/ \E p \in Procs : HandleAvail(p)
  \/ \E p \in Procs : StreamStop(p)
  \/ \E p \in Procs : StreamEmit(p)
  \/ \E p \in Procs : ClientDisconnect(p)
  \/ \E p \in Procs : ContextDone(p)
  \/ \E p \in Procs : SaveRequest(p)
  \/ \E p \in Procs : DecrementSelect(p)
  \/ \E p \in Procs : DecrementUpdate(p)
  \/ \E p \in Procs : DecrementCommit(p)
  \/ \E p \in Procs : DecrementCacheSet(p)
  \/ \E p \in Procs : UpdateWordsLeft(p)
  \/ \E p \in Procs : CacheDel(p)
  \/ \E p \in Procs : HandleCharged(p)

FairLive == \A p \in Procs : WF_vars(ContextDone(p)) /\ WF_vars(StreamStop(p))

SpecLive == Init /\ [][NextLive]_vars /\ FairLive

\* the inspection of the quota and the probe, next to the charges of other
\* requests
NextStats ==
  \/ \E p \in Procs : CallStats(p)
  \/ \E p \in Procs : StatsHandlerSelect(p)
  \/ \E p \in Procs : StatsHandlerInsert(p)
  \/ \E p \in Procs : GetUserStatsCached(p)
  \/ \E p \in Procs : GetUserStats(p)
  \/ \E p \in Procs : GetUserStatsSet(p)
  \/ \E p \in Procs : StatsReturn(p)
  \/ \E u \in Users : StatsExpire(u)
  \/ \E p \in Procs : CallHealth(p)
  \/ \E p \in Procs : healthHandler(p)
  \/ \E p \in Procs : HealthCheck(p)
  \/ \E p \in Procs : HealthReturn(p)
  \/ \E p \in Procs : CallAvailable(p)
  \/ \E p \in Procs : AvailCache(p)
  \/ \E p \in Procs : AvailSelect(p)
  \/ \E p \in Procs : AvailInsert(p)
  \/ \E p \in Procs : AvailSet(p)
  \/ \E p \in Procs : GetOrCreateUserSelect(p)
  \/ \E p \in Procs : GetOrCreateUserInsert(p)
  \/ \E p \in Procs : AvailableReturn(p)
  \/ \E p \in Procs : CallCharge(p)
  \/ \E p \in Procs : DecrementSelect(p)
  \/ \E p \in Procs : DecrementUpdate(p)
  \/ \E p \in Procs : DecrementCommit(p)
  \/ \E p \in Procs : DecrementCacheSet(p)
  \/ \E p \in Procs : UpdateWordsLeft(p)
  \/ \E p \in Procs : CacheDel(p)
  \/ \E p \in Procs : ChargeReturn(p)

SpecStats == Init /\ [][NextStats]_vars

\* charges over a store that holds the rows of one user more, the entries
\* earlier reads left in the caches and the request rows of earlier sessions
\* (a request row refers to the row of its user)
Users2 == 1..(NUsers + 1)
InitRequests == {<<>>, <<[user_id |-> 1, data |-> <<"day", " ">>, by |-> 0]>>}

InitFrame ==
  /\ impl \in Impls
  /\ clock = 0
  /\ rlCounters = [u \in Users |-> NoObj]
  /\ heap = [i \in ObjIds |-> Free]
  /\ rlMu = "free"
  /\ sweep = IdleSweep
  /\ counters = [u \in Users |-> Absent]
  /\ admitted = [u \in Users |-> 0]
  /\ users \in [Users2 -> InitRows]
  /\ requests \in InitRequests
  /\ \A i \in 1..Len(requests) : users[requests[i].user_id] # NoRow
  /\ rowLock = [u \in Users2 |-> 0]
  /\ cache \in [Users2 -> InitEntries]
  /\ \A u \in Users2 : cache[u] # NoEntry =>
        impl = "server" /\ users[u] # NoRow /\ cache[u].val = users[u].words_left
  /\ statsCache \in [Users2 -> {NoEntry} \cup {UserStats(u, r) : u \in Users2, r \in InitRows \ {NoRow}}]
  /\ \A u \in Users2 : statsCache[u] # NoEntry =>
        impl = "handler" /\ users[u] # NoRow /\ statsCache[u] = UserStats(u, users[u])
  /\ ledger = [u \in Users2 |->
                 [initial |-> IF users[u] = NoRow THEN 0 ELSE users[u].words_left,
                  charged |-> 0, calls |-> 0]]
  /\ proc = [p \in Procs |-> IdleProc]

\* a request charges the words it streamed to one of these users
CallChargeOf(p) ==
  /\ proc[p].pc = "idle"
  /\ \E u \in Users2, n \in 0..MaxAmount :
       /\ ledger[u].calls < MaxCalls
       /\ ledger' = [ledger EXCEPT ![u].calls = @ + 1]
       /\ proc' = [proc EXCEPT ![p] = [IdleProc EXCEPT !.pc = "charge", !.op = "Charge",
                                                       !.userID = u, !.amount = n]]
  /\ UNCHANGED <<impl, clock, rlVars, users, requests, rowLock, cache, statsCache>>

NextFrame ==
  \/ \E p \in Procs : CallChargeOf(p)
  \/ \E p \in Procs : DecrementSelect(p)
  \/ \E p \in Procs : DecrementUpdate(p)
  \/ \E p \in Procs : DecrementCommit(p)
  \/ \E p \in Procs : DecrementCacheSet(p)
  \/ \E p \in Procs : UpdateWordsLeft(p)
  \/ \E p \in Procs : CacheDel(p)
  \/ \E p \in Procs : ChargeReturn(p)

SpecFrame == InitFrame /\ [][NextFrame]_vars

InitPair == Init /\ impl = "handler"

NextPair ==
  \/ \E p \in Procs : BeginSession(p)
  \/ \E p \in Procs : IsAllowed(p)
  \/ \E p \in Procs : HandleAdmit(p)
  \/ \E p \in Procs : GetOrCreateUserSelect(p)
  \/ \E p \in Procs : GetOrCreateUserInsert(p)
  \/ \E p \in Procs : HandleAvail(p)
  \/ \E p \in Procs : StreamStop(p)
  \/ \E p \in Procs : StreamEmit(p)
  \/ \E p \in Procs : ClientDisconnect(p)
  \/ \E p \in Procs : ContextDone(p)
  \/ \E p \in Procs : SaveRequest(p)
  \/ \E p \in Procs : UpdateWordsLeft(p)
  \/ \E p \in Procs : CacheDel(p)
  \/ \E p \in Procs : HandleCharged(p)

SpecPair == InitPair /\ [][NextPair]_vars

(* ----------------------------------------------------------------- claims *)

Max0(n) == IF n < 0 THEN 0 ELSE n
HasRow(u) == users[u] # NoRow

\* the request p is a streaming request that is past its admission
Admission == {"idle", "allow", "allow_create", "allow_lock", "allow_body", "allow_ret"}
PastAdmit(p) == proc[p].op = "Handle" /\ proc[p].userID # 0 /\ proc[p].pc \notin Admission

\* the request p is a streaming request that is past its quota read
QuotaRead == {"avail", "avail_db", "avail_insert", "avail_set", "avail_ret"}
PastAvail(p) == PastAdmit(p) /\ proc[p].pc \notin QuotaRead /\ proc[p].status # 429

\* the rows of table requests the request p inserted
RowsOf(p) == SelectSeq(requests, LAMBDA r : r.by = p)

\* the request p emitted no token, saved no record and charged nothing
NothingStreamed(p) ==
  /\ proc[p].sink = <<>>
  /\ proc[p].wordCount = 0
  /\ proc[p].effects \cap {"emit", "save", "charge"} = {}
  /\ RowsOf(p) = <<>>

\* C1: for every user, at every moment the durable words_left is
\* max(0, initial - C), C being the words of the charges committed so far, in
\* whatever way the concurrent charges interleave: no decrement is lost.
C1_ChargesSerialize ==
  \A u \in Users :
    HasRow(u) => users[u].words_left = Max0(ledger[u].initial - ledger[u].charged)

\* two charges of one user ran concurrently and both committed
C1_Witness ==
  \E u \in Users :
    /\ HasRow(u)
    /\ ledger[u].calls = MaxCalls
    /\ ledger[u].charged > ledger[u].initial
    /\ \A p \in Procs : proc[p].pc = "charge_ret" /\ ~proc[p].chargeErr /\ proc[p].amount > 0

\* C2: for every user, the calls admitted in the user's current window never
\* exceed the limit.
C2_AdmitCap == \A u \in Users : admitted[u] <= Limit

\* C3: a session that started streaming (status 200) and has ended has had its
\* outcome handed to the store and its charge invoked, whatever ended the stream.
C3_EndedSessionsReconciled ==
  \A p \in Procs :
    (proc[p].op = "Handle" /\ proc[p].status = 200 /\ proc[p].pc = "done")
    => {"save", "charge"} \subseteq proc[p].effects

\* C4: at every point of a session the token count is the number of tokens
\* written to the sink and the accumulated text holds exactly those tokens in
\* order; the amount charged and the text saved are these values.
C4_CountsWhatWasWritten ==
  \A p \in Procs :
    proc[p].op = "Handle" =>
      /\ proc[p].wordCount = Len(Tokens(proc[p].sink))
      /\ Tokens(DataOf(proc[p])) = Tokens(proc[p].sink)
      /\ "charge" \in proc[p].effects => proc[p].amount = Len(Tokens(proc[p].sink))
      /\ \A i \in 1..Len(RowsOf(p)) : Tokens(RowsOf(p)[i].data) = Tokens(proc[p].sink)

\* the counter the limiter holds for user u: whether there is one, its count
\* and the start of its window
HasCounter(u) == IF impl = "server" THEN rlCounters[u] # NoObj ELSE counters[u] # Absent
CountOf(u) == IF impl = "server" THEN heap[rlCounters[u]].count ELSE counters[u].Count
WindowStart(u) ==
  IF impl = "server" THEN heap[rlCounters[u]].resetTime - Minute ELSE counters[u].LastReset

\* the step in which the limiter decides the call of p
Decides(p) == proc[p].pc \in {"allow", "allow_body"} /\ proc'[p].pc = "allow_ret"

\* C11: calls made one after the other: inside a window exactly the first Limit
\* calls are admitted; the first call made once 60 seconds have elapsed since
\* the start of the window is admitted and leaves count = 1 and a window that
\* starts now; so does the first call of a user with no counter.
C11_FirstLimitThenReset ==
  [][\A p \in Procs :
       Decides(p) =>
         LET u == proc[p].userID IN
         IF ~HasCounter(u) \/ clock - WindowStart(u) >= Minute
         THEN proc'[p].allowed /\ CountOf(u)' = 1 /\ WindowStart(u)' = clock
         ELSE proc'[p].allowed = (admitted[u] < Limit)]_vars

\* the session p has left its loop and goes on to, or is through, reconciliation
Reconciling(p) ==
  proc[p].pc \in {"charge", "charge_update", "charge_commit", "charge_set",
                  "charge_del", "charge_ret"}
PastLoop(p) ==
  /\ proc[p].op = "Handle"
  /\ proc[p].pc = "save" \/ Reconciling(p)
     \/ (proc[p].pc = "done" /\ proc[p].status = 200 /\ ~proc[p].writeFailed)

\* the tokens the session p wrote to its sink
Emitted(p) == Tokens(proc[p].sink)
EmittedStop(p) ==
  proc[p].stopToken # "" /\ \E i \in 1..Len(Emitted(p)) : Emitted(p)[i] = proc[p].stopToken

\* no stop token, deadline, cancellation or failed write ended the stream of p
NotCutShort(p) == ~proc[p].ctxDone /\ ~proc[p].writeFailed /\ ~EmittedStop(p)

\* the session p has a cap of N >= 1 tokens that its quota covers
Capped(p) ==
  proc[p].op = "Handle" /\ proc[p].maxTokens >= 1 /\ proc[p].maxTokens <= proc[p].wordsLeft

\* C12: a session with maxTokens = N, 1 <= N <= wordsLeft, never emits more
\* than N tokens; when nothing cut it short it ends with exactly N tokens
\* written and hands exactly N to the charge.
C12_MaxTokensExact ==
  \A p \in Procs :
    Capped(p) =>
      /\ proc[p].wordCount <= proc[p].maxTokens
      /\ Len(Emitted(p)) = proc[p].wordCount
      /\ (PastLoop(p) /\ NotCutShort(p)) =>
            /\ Len(Emitted(p)) = proc[p].maxTokens
            /\ proc[p].pc # "save" => proc[p].amount = proc[p].maxTokens

\* a capped session ran to its cap and was charged
C12_Witness ==
  \E p \in Procs :
    /\ Capped(p) /\ NotCutShort(p)
    /\ proc[p].wordsLeft > proc[p].maxTokens
    /\ proc[p].pc = "done" /\ "charge" \in proc[p].effects
    /\ Len(Emitted(p)) = proc[p].maxTokens /\ proc[p].amount = proc[p].maxTokens

\* the rows of table requests of user u
RequestsOf(u) == SelectSeq(requests, LAMBDA r : r.user_id = u)

\* the session p, the only one of its user, created the user, ran to its cap of
\* N tokens and both writes of its reconciliation succeeded
NewUserRanToCap(p) ==
  /\ \A q \in Procs \ {p} : proc[q].op = "Handle" => proc[q].userID # proc[p].userID
  /\ Capped(p) /\ NotCutShort(p)
  /\ "user_create" \in proc[p].effects
  /\ proc[p].pc = "done" /\ proc[p].status = 200
  /\ proc[p].saved # <<>> /\ ~proc[p].chargeErr

\* C13: after the one session of a user never seen before ran to its cap N and
\* was reconciled, the user row has total_words = 1000000 and words_left =
\* 1000000 - N, and the user has exactly one request row, holding the N tokens.
C13_NewUserAfterSession ==
  \A p \in Procs :
    NewUserRanToCap(p) =>
      LET u == proc[p].userID IN
      /\ users[u] = Row(DefaultWords - proc[p].maxTokens, DefaultWords)
      /\ Len(RequestsOf(u)) = 1
      /\ Tokens(RequestsOf(u)[1].data) = Emitted(p)
      /\ Len(Emitted(p)) = proc[p].maxTokens

\* such a session of a new user is over
C13_Witness ==
  \E p \in Procs :
    NewUserRanToCap(p) /\ users[proc[p].userID] # NoRow /\ Len(RequestsOf(proc[p].userID)) = 1

\* C14: in a session with a stop token, a written token equal to the stop token
\* is counted and is the last one: none follows it, none equal to it precedes
\* it, and the session has left its loop.
C14_StopTokenIsLast ==
  \A p \in Procs :
    (proc[p].op = "Handle" /\ proc[p].stopToken # "") =>
      \A i \in 1..Len(Emitted(p)) :
        Emitted(p)[i] = proc[p].stopToken =>
          /\ i = Len(Emitted(p))
          /\ proc[p].wordCount = i
          /\ proc[p].pc # "stream"

\* a session wrote another token first, then its stop token, and ended
C14_Witness ==
  \E p \in Procs :
    /\ proc[p].op = "Handle" /\ proc[p].stopToken # ""
    /\ Len(Emitted(p)) = 2
    /\ Emitted(p)[1] # proc[p].stopToken /\ Emitted(p)[2] = proc[p].stopToken
    /\ proc[p].pc = "done" /\ "charge" \in proc[p].effects

\* s is a prefix of t
IsPrefix(s, t) == Len(s) <= Len(t) /\ SubSeq(t, 1, Len(s)) = s

\* two different sessions that were given the same seed and the same stop token
SameDraws(p, q) ==
  /\ p # q
  /\ proc[p].op = "Handle" /\ proc[q].op = "Handle"
  /\ proc[p].userID # 0 /\ proc[q].userID # 0
  /\ proc[p].seed = proc[q].seed /\ proc[p].stopToken = proc[q].stopToken

ChargeReturns(p) == proc[p].pc # "charge_ret" /\ proc'[p].pc = "charge_ret"
ChargeSteps(p) ==
  proc[p].pc \in {"charge", "charge_update", "charge_commit"} /\ proc'[p] # proc[p]

\* C16: when a charge that committed returns, the cache holds no entry for the
\* user: the entry was deleted, not set to the new value.
C16_ChargeDeletesEntry ==
  [][\A p \in Procs :
       (ChargeReturns(p) /\ ~proc'[p].chargeErr)
       => /\ cache'[proc[p].userID] = NoEntry
          /\ statsCache'[proc[p].userID] = NoEntry]_vars

\* C17: every step of a charge but the one that commits it, and so every step
\* of a charge that fails at the begin, the locked read, the update or the
\* commit, leaves the rows of the store and the entries of the cache as they
\* were.
C17_FailedChargeWritesNothing ==
  [][\A p \in Procs :
       (ChargeSteps(p) /\ proc'[p].pc \notin {"charge_set", "charge_del"})
       => users' = users /\ cache' = cache /\ statsCache' = statsCache]_vars

\* a charge of more than nothing read the row, failed later and returned, and
\* the row still holds what the charge read
C17_Witness ==
  \E p \in Procs :
    /\ proc[p].op = "Charge" /\ proc[p].pc = "charge_ret" /\ proc[p].chargeErr
    /\ proc[p].amount > 0 /\ proc[p].txWordsLeft > 0
    /\ users[proc[p].userID] # NoRow
    /\ users[proc[p].userID].words_left = proc[p].txWordsLeft

\* C18: when the quota read of the server returns without error: after a miss
\* for a user with no row the row is 1000000/1000000, the cache entry is
\* 1000000 and 1000000 is returned; after a hit the cached value is returned
\* and the store was not read.
C18_ReadThrough ==
  [][\A p \in Procs :
       (impl = "server" /\ proc[p].pc \in QuotaRead /\ proc[p].pc # "avail_ret"
        /\ proc'[p].pc = "avail_ret" /\ ~proc'[p].err)
       => LET u == proc[p].userID IN
          IF proc[p].pc = "avail"
          THEN /\ cache[u] # NoEntry /\ proc'[p].wordsLeft = cache[u].val
               /\ "quota_read" \notin proc'[p].effects
          ELSE users[u] = NoRow =>
                 /\ users'[u] = Row(DefaultWords, DefaultWords)
                 /\ cache'[u] = Entry(DefaultWords)
                 /\ proc'[p].wordsLeft = DefaultWords]_vars

\* C19: a session that wrote at least one token and then lost its client has,
\* once it is over, saved its outcome and invoked the charge with the number
\* of tokens it wrote.
C19_DeliveredTokensReconciled ==
  \A p \in Procs :
    (proc[p].op = "Handle" /\ proc[p].pc = "done" /\ proc[p].status = 200
     /\ ~proc[p].connOpen /\ Len(Emitted(p)) >= 1)
    => /\ {"save", "charge"} \subseteq proc[p].effects
       /\ proc[p].amount = Len(Emitted(p))

\* the words of the charges that the sessions 1..n of the user u have invoked
RECURSIVE ChargesInvoked(_, _)
ChargesInvoked(u, n) ==
  IF n = 0 THEN 0
  ELSE ChargesInvoked(u, n - 1)
       + (IF proc[n].op = "Handle" /\ proc[n].userID = u /\ "charge" \in proc[n].effects
          THEN proc[n].amount ELSE 0)

\* C20: a session invokes its charge once and saves once, a failed save or
\* charge is not tried again; it has at most one request row and the store
\* was charged at most the words of one charge for each session that invoked
\* its charge.
C20_ReconciledOnce ==
  [][/\ \A p \in Procs :
          proc[p].op = "Handle" =>
            /\ (proc[p].pc = "charge" /\ proc'[p].pc # "charge")
                  => "charge" \notin proc[p].effects
            /\ (proc[p].pc = "save" /\ proc'[p].pc # "save") => "save" \notin proc[p].effects
            /\ Len(SelectSeq(requests', LAMBDA r : r.by = p)) <= 1
     /\ \A u \in Users : ledger'[u].charged <= ChargesInvoked(u, NProcs)']_vars

\* a session whose save and charge both failed is over
C20_Witness ==
  \E p \in Procs :
    /\ proc[p].op = "Handle" /\ proc[p].pc = "done" /\ proc[p].status = 200
    /\ {"save", "charge"} \subseteq proc[p].effects
    /\ proc[p].chargeErr /\ proc[p].saved = <<>> /\ proc[p].wordCount > 0

\* the save of the session p was tried and failed
SaveFailed(p) == proc[p].op = "Handle" /\ "save" \in proc[p].effects /\ proc[p].saved = <<>>

\* C21: a session whose request row could not be saved goes on to its charge
\* with the words it counted, and neither that failure nor a failed charge
\* changes the status the caller got: the stream stays a success (200).
C21_FailuresStayInternal ==
  \A p \in Procs :
    /\ SaveFailed(p) =>
         /\ Reconciling(p) \/ proc[p].pc = "done"
         /\ proc[p].amount = proc[p].wordCount
         /\ proc[p].pc = "done" => "charge" \in proc[p].effects
         /\ proc[p].status = 200
    /\ (proc[p].op = "Handle" /\ proc[p].chargeErr) => proc[p].status = 200

\* a session that emitted tokens is over; its save failed and its charge was
\* invoked
C21_Witness ==
  \E p \in Procs :
    /\ SaveFailed(p) /\ proc[p].pc = "done" /\ proc[p].wordCount > 0
    /\ "charge" \in proc[p].effects /\ proc[p].status = 200

InAdmit == {"allow", "allow_create", "allow_lock", "allow_body"}

\* C23: scheduled fairly, every call of Admit returns and every pass of the
\* sweep ends: the lock of the map and the locks of the counters never block
\* a task for ever.
C23_AdmitAndSweepTerminate ==
  /\ \A p \in Procs : (proc[p].pc \in InAdmit) ~> (proc[p].pc = "allow_ret")
  /\ (sweep.pc = "scan") ~> (sweep.pc = "wait")

\* a pass of the sweep holds the map while a call waits for it, and another
\* call holds the mutex of a counter
C23_Witness ==
  /\ sweep.pc = "scan" /\ sweep.todo # {}
  /\ \E p, q \in Procs :
       /\ proc[p].pc \in {"allow", "allow_create"}
       /\ proc[q].pc = "allow_body"

\* a probe that was answered
Probed(p) == proc[p].op = "Health" /\ proc[p].pc = "health_ret"

\* C24: the probe is always answered (200); with exactly one of the store and
\* the cache unhealthy the aggregate status is "degraded"; with both healthy
\* the store is reported healthy and the aggregate status is "healthy".
C24_ProbeAggregates ==
  \A p \in Procs :
    Probed(p) =>
      /\ proc[p].status = 200
      /\ (proc[p].dbUp # proc[p].redisUp) => proc[p].body.status = "degraded"
      /\ (proc[p].dbUp /\ proc[p].redisUp) =>
            proc[p].body.database = "healthy" /\ proc[p].body.status = "healthy"

\* an inspection of the quota that was answered, with no store failure
Inspected(p) == proc[p].op = "Stats" /\ proc[p].pc = "stats_ret" /\ ~proc[p].dbFailed

\* C25: an inspection that finds neither a cache entry nor a row creates the
\* default row and answers wordsLeft = wordsTotal = 1,000,000 and wordsUsed = 0;
\* one that finds the row answers wordsUsed = wordsTotal - wordsLeft.
C25_InspectionCreatesAndReports ==
  \A p \in Procs :
    Inspected(p) =>
      /\ proc[p].found = "norow" =>
            /\ proc[p].status = 200
            /\ HasRow(proc[p].userID)
            /\ proc[p].body = UserStats(proc[p].userID, Row(DefaultWords, DefaultWords))
      /\ proc[p].found = "row" =>
            /\ proc[p].status = 200
            /\ "words_used" \in DOMAIN proc[p].body
            /\ proc[p].body.words_used = proc[p].body.total_words - proc[p].body.words_left

\* the call p holds a counter that the map of its user no longer holds any
\* counter for: a pass of the sweep deleted it while the call was in progress
\* (only the sweep removes entries)
SweptUnder(p) ==
  /\ proc[p].pc \in {"allow_lock", "allow_body"}
  /\ rlCounters[proc[p].userID] = NoObj

\* C26: the increment of an Admit whose counter the sweep deleted while the
\* call was in progress is not lost: when the call is admitted, the map holds
\* the counter that took the increment.
C26_SweepKeepsIncrement ==
  [][\A p \in Procs :
       (SweptUnder(p) /\ Decides(p) /\ proc'[p].allowed) =>
         /\ rlCounters'[proc[p].userID] = proc[p].counter
         /\ heap'[proc[p].counter] # Free]_vars

\* C27: whatever the interleaving of concurrent calls of Admit, two first
\* calls for a user included, the count of the counter the map holds for a
\* user is the number of calls that returned true since the start of its
\* window.
C27_CountIsAdmitted ==
  \A u \in Users : HasCounter(u) => CountOf(u) = admitted[u]

\* the fixed-window algorithm the limiter is measured against: its decision
\* and the counter it leaves
RefAdmit(has, count, start, now) ==
  IF ~has THEN [ok |-> TRUE, count |-> 1, start |-> now]
  ELSE IF now - start >= Minute THEN [ok |-> TRUE, count |-> 1, start |-> now]
  ELSE IF count >= Limit THEN [ok |-> FALSE, count |-> count, start |-> start]
  ELSE [ok |-> TRUE, count |-> count + 1, start |-> start]

\* C28: calls made one after the other: every call decides as the reference
\* algorithm does on the counter it finds, and leaves the count and the start
\* of the window the reference leaves; a call made exactly 60 seconds after
\* the start of a full window is admitted. (The server's miss path hands the
\* decision a counter with count 0 whose window starts now, on which the
\* reference gives what it gives for no counter.)
C28_MatchesReference ==
  [][\A p \in Procs :
       Decides(p) =>
         LET u == proc[p].userID
             has == HasCounter(u)
             r == RefAdmit(has, IF has THEN CountOf(u) ELSE 0,
                           IF has THEN WindowStart(u) ELSE 0, clock)
         IN /\ proc'[p].allowed = r.ok
            /\ CountOf(u)' = r.count
            /\ WindowStart(u)' = r.start]_vars

\* the step in which the read-through of p writes what it read to the cache
Repopulates(p) ==
  \/ /\ proc[p].pc = "stats_set"
     /\ statsCache'[proc[p].userID] # statsCache[proc[p].userID]
  \/ /\ proc[p].pc = "avail_set"
     /\ cache'[proc[p].userID] # cache[proc[p].userID]

\* the words_left the cache holds for the user u, in the entry of the quota
\* read or in the entry of the stats
CachedWordsLeft(u) ==
  (IF cache[u] = NoEntry THEN {} ELSE {cache[u].val})
  \cup (IF statsCache[u] = NoEntry THEN {} ELSE {statsCache[u].val.words_left})

\* a charge of the user u has committed and has its write to the cache ahead
Invalidating(u) ==
  \E q \in Procs : proc[q].userID = u /\ proc[q].pc \in {"charge_del", "charge_set"}

\* C29: a read-through that was in flight while a charge committed and
\* invalidated the cache leaves no value from before the charge in the cache:
\* what it writes once the charge is through is the committed words_left of
\* the store, so that every later read returns that value.
C29_NoStaleRepopulation ==
  [][\A p \in Procs :
       (Repopulates(p) /\ ~Invalidating(proc[p].userID)) =>
         \A w \in CachedWordsLeft(proc[p].userID)' :
           w = users'[proc[p].userID].words_left]_vars

\* C30: in every state of a session that streams or has streamed, the words
\* it has counted do not exceed the words_left its quota read returned.
C30_WithinQuotaRead ==
  \A p \in Procs :
    (PastAvail(p) /\ proc[p].status = 200) => proc[p].wordCount <= proc[p].wordsLeft

\* C31: the stages of one request come in the order admission, quota read,
\* stream, save, charge: a token is written only after Admit returned true and
\* the quota read returned a positive value, and before the save and the
\* charge; the save starts when the loop is over and the charge after the save.
C31_StagesInOrder ==
  [][\A p \in Procs :
       proc[p].op = "Handle" =>
         /\ proc'[p].sink # proc[p].sink =>
               /\ proc[p].allowed /\ ~proc[p].err /\ proc[p].wordsLeft > 0
               /\ proc[p].effects \cap {"save", "charge"} = {}
         /\ ("save" \in proc'[p].effects /\ "save" \notin proc[p].effects) =>
               /\ proc[p].pc = "save" /\ "charge" \notin proc'[p].effects
         /\ "charge" \in proc'[p].effects => "save" \in proc'[p].effects]_vars

\* a request went through all of its stages
C31_Witness ==
  \E p \in Procs :
    /\ proc[p].op = "Handle" /\ proc[p].pc = "done" /\ proc[p].allowed
    /\ {"emit", "save", "charge"} \subseteq proc[p].effects
    /\ Len(Emitted(p)) = MaxEmit /\ proc[p].saved # <<>> /\ ~proc[p].chargeErr

\* the stream of the session p was cancelled: its context is done (deadline or
\* cancellation) or its caller has gone away
Cancelled(p) ==
  proc[p].op = "Handle" /\ proc[p].status = 200 /\ (proc[p].ctxDone \/ ~proc[p].connOpen)

\* C32: a session whose context is done starts no new token; once a cancelled
\* session is out of its loop it is in its reconciliation, or through it, with
\* the words it had counted.
C32_CancelledThenReconciled ==
  [][\A p \in Procs :
       /\ (proc[p].op = "Handle" /\ proc[p].ctxDone) =>
             proc'[p].sink = proc[p].sink /\ proc'[p].wordCount = proc[p].wordCount
       /\ (Cancelled(p)' /\ proc'[p].pc # "stream") =>
             /\ proc'[p].pc = "save" \/ "save" \in proc'[p].effects
             /\ proc'[p].pc = "done" => "charge" \in proc'[p].effects
             /\ "save" \in proc'[p].effects => proc'[p].amount = proc'[p].wordCount]_vars

\* the step in which a pass of the sweep looks at the counter of the user u
SweepVisits(u) ==
  IF impl = "server"
  THEN sweep.pc = "scan" /\ u \in sweep.todo /\ u \notin sweep'.todo
  ELSE counters[u] # Absent /\ counters' # counters /\ proc' = proc

\* the time a pass of the sweep compares the windows with
SweepNow == IF impl = "server" THEN sweep.now ELSE clock

\* C33: a pass of the sweep deletes the counters whose window has fully
\* elapsed (now - windowStart >= 60 seconds) and no others.
C33_SweepDeletesElapsed ==
  [][\A u \in Users :
       SweepVisits(u) =>
         (~HasCounter(u)' <=> SweepNow - WindowStart(u) >= Minute)]_vars

\* C34: the sweep cannot be observed through Admit: every answer a caller
\* gets, with passes of the sweep at any moment between and during its calls,
\* is the answer the limiter gives to the same calls at the same times with no
\* sweep.
C34_SweepUnobservable ==
  \A p \in Procs :
    (proc[p].op = "Admit" /\ proc[p].pc = "idle") => proc[p].allowed = proc[p].refOk

C38_RejectLeavesCounter ==
  [][\A p \in Procs :
       (Decides(p) /\ ~proc'[p].allowed) =>
         IF impl = "server"
         THEN LET i == proc[p].counter IN
              /\ heap[i].count = Limit
              /\ heap'[i] = Free \/ heap'[i] = [heap[i] EXCEPT !.mu = 0]
              /\ rlCounters' = rlCounters
         ELSE LET u == proc[p].userID IN
              /\ counters[u] # Absent /\ counters[u].Count = Limit
              /\ counters' = counters]_vars

\* a call was rejected later than the start of the window it found full
C38_Witness ==
  \E p \in Procs :
    /\ proc[p].pc = "allow_ret" /\ ~proc[p].allowed
    /\ HasCounter(proc[p].userID)
    /\ CountOf(proc[p].userID) = Limit
    /\ WindowStart(proc[p].userID) < clock

\* the step in which the quota read of p, having found no record of its user,
\* comes to create one that another request has created in the meantime
CreatesSecond(p) ==
  /\ proc[p].pc = "avail_insert"
  /\ proc'[p].pc = "avail_ret"
  /\ users[proc[p].userID] # NoRow

\* C36: of two quota reads that both find no record of their user, the one
\* that comes second to create the record does not fail because the record
\* exists: it obtains 1,000,000, and the one record stays as it is.
C36_BothObtainDefault ==
  [][\A p \in Procs :
       CreatesSecond(p) =>
         /\ ~proc'[p].err
         /\ proc'[p].wordsLeft = DefaultWords
         /\ users' = users]_vars

\* the tokens the sessions 1..n of the user u have written
RECURSIVE EmittedBy(_, _)
EmittedBy(u, n) ==
  IF n = 0 THEN 0
  ELSE EmittedBy(u, n - 1)
       + (IF proc[n].op = "Handle" /\ proc[n].userID = u THEN Len(Emitted(n)) ELSE 0)

\* C37: the tokens written by all the sessions of one user, concurrent ones
\* included, never exceed the words_left the user had before they started.
C37_TotalWithinQuota ==
  \A u \in Users : EmittedBy(u, NProcs) <= ledger[u].initial

\* the step p takes inside a charge that some request invoked
Charging(p) ==
  /\ proc[p].op = "Charge"
  /\ proc[p].pc \in {"charge", "charge_update", "charge_commit", "charge_set", "charge_del"}
  /\ proc'[p] # proc[p]

\* C39: a charge for the user u changes nothing but the words_left of u's row
\* and u's cache entries: the rows and the entries of every other user, the
\* total_words of u and all the request rows stay as they were.
C39_ChargeTouchesOnlyItsUser ==
  [][\A p \in Procs :
       Charging(p) =>
         LET u == proc[p].userID IN
         /\ requests' = requests
         /\ \A v \in DOMAIN users \ {u} :
               /\ users'[v] = users[v]
               /\ cache'[v] = cache[v]
               /\ statsCache'[v] = statsCache[v]
         /\ users[u] # NoRow =>
               users'[u] # NoRow /\ users'[u].total_words = users[u].total_words]_vars

\* a charge of more than nothing went through and returned while another user
\* had a row with a word left and an entry in a cache, and a request row was
\* in the store
C39_Witness ==
  \E p \in Procs, v \in DOMAIN users :
    /\ proc[p].op = "Charge" /\ proc[p].pc = "charge_ret" /\ ~proc[p].chargeErr
    /\ proc[p].amount > 0 /\ ledger[proc[p].userID].charged > 0
    /\ "cache_write" \in proc[p].effects
    /\ v # proc[p].userID
    /\ users[v] # NoRow /\ users[v].words_left > 0
    /\ cache[v] # NoEntry \/ statsCache[v] # NoEntry
    /\ requests # <<>>

\* C5: in every reachable state every user row has 0 <= words_left <= total_words.
C5_WordsLeftInRange ==
  \A u \in Users :
    HasRow(u) => 0 <= users[u].words_left /\ users[u].words_left <= users[u].total_words

\* a committed charge asked for more words than the user had left
C5_Witness ==
  \E u \in Users, p \in Procs :
    /\ HasRow(u)
    /\ proc[p].pc = "charge_ret" /\ ~proc[p].chargeErr /\ proc[p].userID = u
    /\ ledger[u].charged > ledger[u].initial
    /\ users[u].words_left = 0

\* C6: whenever a quota read obtains the value it returns (from the cache, or
\* from the store on a miss), that value is not greater than the words_left the
\* store holds at that moment.
C6_NotAboveStore ==
  [][\A p \in Procs :
       (proc'[p].wordsLeft # proc[p].wordsLeft /\ proc'[p].wordsLeft >= 0 /\ ~proc'[p].err)
       => /\ users'[proc'[p].userID] # NoRow
          /\ proc'[p].wordsLeft <= users'[proc'[p].userID].words_left]_vars

\* C7: a request whose quota read succeeded with words_left = 0 ends with 403
\* at once: it emits no token, saves no record and charges nothing.
C7_ExhaustedIsForbidden ==
  \A p \in Procs :
    (PastAvail(p) /\ ~proc[p].err /\ proc[p].wordsLeft = 0)
    => proc[p].pc = "done" /\ proc[p].status = 403 /\ NothingStreamed(p)

\* a request of a user with no words left was answered
C7_Witness ==
  \E p \in Procs :
    /\ PastAvail(p) /\ ~proc[p].err /\ proc[p].wordsLeft = 0
    /\ proc[p].status = 403
    /\ users[proc[p].userID] # NoRow /\ users[proc[p].userID].words_left = 0

\* C8: a request the limiter rejected ends with 429 and has done nothing else:
\* no cache or store read, no user created, no cache write, no token, no
\* record, no charge.
C8_RejectedHasNoEffects ==
  \A p \in Procs :
    (PastAdmit(p) /\ ~proc[p].allowed)
    => /\ proc[p].pc = "done" /\ proc[p].status = 429
       /\ proc[p].effects = {}
       /\ proc[p].wordsLeft = -1
       /\ NothingStreamed(p)

\* the limiter rejected a streaming request, the window being full
C8_Witness ==
  \E p \in Procs :
    /\ PastAdmit(p) /\ ~proc[p].allowed
    /\ proc[p].status = 429
    /\ admitted[proc[p].userID] >= Limit

\* C9: a request whose quota read met a failing store gets an error and no
\* value from the read, ends with 500, creates no user, emits no token, saves
\* no record and charges nothing.
C9_StoreFailureAborts ==
  \A p \in Procs :
    (proc[p].op = "Handle" /\ proc[p].dbFailed)
    => /\ proc[p].err /\ proc[p].wordsLeft = 0
       /\ proc[p].pc \in {"avail_ret", "done"}
       /\ proc[p].pc = "done" => proc[p].status = 500
       /\ "user_create" \notin proc[p].effects
       /\ NothingStreamed(p)

\* a request was answered 500 after its store read failed
C9_Witness ==
  \E p \in Procs :
    proc[p].op = "Handle" /\ proc[p].dbFailed /\ proc[p].pc = "done" /\ proc[p].status = 500

\* C10 as stated: a request whose cache read failed ends with 500 and does not
\* go on to the store.
C10_CacheFailureAborts ==
  \A p \in Procs :
    (proc[p].op = "Handle" /\ proc[p].cacheFailed)
    => /\ "quota_read" \notin proc[p].effects
       /\ PastAvail(p) => proc[p].pc = "done" /\ proc[p].status = 500

\* C10: a failed cache read is a miss: the quota read goes on to the store, and
\* the request ends with 500 only if the store fails too.
C10_CacheFailureIsAMiss ==
  \A p \in Procs :
    (proc[p].op = "Handle" /\ proc[p].cacheFailed)
    => /\ proc[p].pc # "avail_db" => "quota_read" \in proc[p].effects
       /\ proc[p].status = 500 => proc[p].dbFailed

\* a request streams although its cache read failed
C10_Witness ==
  \E p \in Procs :
    /\ proc[p].op = "Handle" /\ proc[p].cacheFailed
    /\ proc[p].pc = "stream" /\ proc[p].wordCount > 0

====
